---------------------------- MODULE Spec2Model ----------------------------
(***************************************************************************)
(* Verification model of the career services repository: the chatbot menu  *)
(* router and text pipeline, the mentor /chat endpoint, the MCQ generator, *)
(* the resume analysis pipeline and the career orchestrator.               *)
(*                                                                         *)
(* Texts (model replies, user messages, extracted resume text) are         *)
(* sequences of one-character strings, so that Python's strip, startswith, *)
(* endswith, slices, `in` and the two regular expressions of the MCQ       *)
(* generator are computed character by character.                          *)
(***************************************************************************)
EXTENDS Integers, Sequences, FiniteSets, TLC

(***************************************************************************)
(* Bounds of the model.                                                    *)
(***************************************************************************)
\* longest run of whitespace put around a fence or a JSON document
MaxPad == 1
\* most pages of an uploaded PDF
MaxPages == 2
\* most tool calls in one reply of the model
MaxToolCalls == 2
\* most words in a free-text message to the chatbot
MaxWords == 2
\* most career suggestions in one reply of the model
\* option turns of one conversation
MaxTurns == 4

MaxSuggestions == 2

(***************************************************************************)
(* Characters and Python string primitives.                                *)
(***************************************************************************)
\* the backtick character (a TLA+ string cannot hold it)
Tick == "TICK"
Quote == "\""
Space == " "
Newline == "\n"

\* the whitespace characters the model's texts use; str.strip() removes each
PyWhitespace == {Space, Newline}

\* s[n:] of Python for 0 <= n
DropFirst(s, n) == IF n >= Len(s) THEN <<>> ELSE SubSeq(s, n + 1, Len(s))

\* s[:-n] of Python for n > 0
DropLast(s, n) == IF n >= Len(s) THEN <<>> ELSE SubSeq(s, 1, Len(s) - n)

\* s[:n] of Python for 0 <= n
TakeFirst(s, n) == IF n >= Len(s) THEN s ELSE SubSeq(s, 1, n)

StartsWith(s, p) == Len(p) <= Len(s) /\ SubSeq(s, 1, Len(p)) = p

EndsWith(s, p) == Len(p) <= Len(s) /\ SubSeq(s, Len(s) - Len(p) + 1, Len(s)) = p

\* `p in s` of Python: p occurs in s as a contiguous substring
Contains(s, p) == \E i \in 1..(Len(s) - Len(p) + 1) : SubSeq(s, i, i + Len(p) - 1) = p

\* index of the first character at or after i that is not in ws (Len(s)+1 if none)
SkipChars(s, i, ws) ==
  CHOOSE j \in i..(Len(s) + 1) :
    /\ (j = Len(s) + 1 \/ s[j] \notin ws)
    /\ \A k \in i..(j - 1) : s[k] \in ws

LStrip(s) == DropFirst(s, SkipChars(s, 1, PyWhitespace) - 1)

RStrip(s) ==
  LET last == CHOOSE j \in 0..Len(s) :
                /\ (j = 0 \/ s[j] \notin PyWhitespace)
                /\ \A k \in (j + 1)..Len(s) : s[k] \in PyWhitespace
  IN SubSeq(s, 1, last)

\* str.strip()
Strip(s) == RStrip(LStrip(s))

UpperCase ==
  <<"A", "B", "C", "D", "E", "F", "G", "H", "I", "J", "K", "L", "M",
    "N", "O", "P", "Q", "R", "S", "T", "U", "V", "W", "X", "Y", "Z">>
LowerCase ==
  <<"a", "b", "c", "d", "e", "f", "g", "h", "i", "j", "k", "l", "m",
    "n", "o", "p", "q", "r", "s", "t", "u", "v", "w", "x", "y", "z">>

\* str.lower()
Lower(s) ==
  [i \in 1..Len(s) |->
     IF \E k \in 1..26 : UpperCase[k] = s[i]
     THEN LowerCase[CHOOSE k \in 1..26 : UpperCase[k] = s[i]]
     ELSE s[i]]

\* Python's None, kept apart from every text
None == <<"None">>

\* the truth value Python gives an Optional[str]
Truthy(x) == x # None /\ x # <<>>

FenceOpen == <<Tick, Tick, Tick>>
FenceOpenJson == <<Tick, Tick, Tick, "j", "s", "o", "n">>
FenceClose == <<Tick, Tick, Tick>>

(***************************************************************************)
(* json.loads on the JSON subset the model's texts use: objects, arrays,   *)
(* strings without escapes, unsigned integers without fraction or         *)
(* exponent, null, true and false.  A value is a record [t, v]: t is its   *)
(* JSON type, v its content (a function from keys to values for an object, *)
(* a sequence for an array).                                               *)
(***************************************************************************)
JsonWhitespace == {Space, Newline}
Digits == <<"0", "1", "2", "3", "4", "5", "6", "7", "8", "9">>
DigitChars == {Digits[i] : i \in 1..10}
DigitValue(c) == (CHOOSE i \in 1..10 : Digits[i] = c) - 1

JNull == [t |-> "null", v |-> <<>>]
JBool(b) == [t |-> "bool", v |-> b]
JNum(n) == [t |-> "num", v |-> n]
JStr(chars) == [t |-> "str", v |-> chars]
JArr(items) == [t |-> "arr", v |-> items]
JObj(members) == [t |-> "obj", v |-> members]

ParseFail == [ok |-> FALSE, val |-> JNull, next |-> 0]
ParseOk(val, next) == [ok |-> TRUE, val |-> val, next |-> next]

CharAt(s, i) == IF i \in 1..Len(s) THEN s[i] ELSE ""

\* a string literal starting at the quote s[i]; control characters are refused
ParseString(s, i) ==
  IF CharAt(s, i) # Quote THEN ParseFail
  ELSE LET close == SkipChars(s, i + 1, {s[k] : k \in 1..Len(s)} \ {Quote})
       IN IF close > Len(s) THEN ParseFail
          ELSE IF \E k \in (i + 1)..(close - 1) : s[k] = Newline THEN ParseFail
          ELSE ParseOk(JStr(SubSeq(s, i + 1, close - 1)), close + 1)

RECURSIVE DecimalValue(_)
DecimalValue(ds) ==
  IF ds = <<>> THEN 0
  ELSE 10 * DecimalValue(SubSeq(ds, 1, Len(ds) - 1)) + DigitValue(ds[Len(ds)])

\* an unsigned integer starting at s[i]: 0, or a digit run without leading 0
ParseNumber(s, i) ==
  IF CharAt(s, i) \notin DigitChars THEN ParseFail
  ELSE IF s[i] = "0" THEN ParseOk(JNum(0), i + 1)
  ELSE LET end == SkipChars(s, i, DigitChars)
       IN ParseOk(JNum(DecimalValue(SubSeq(s, i, end - 1))), end)

ParseLiteral(s, i, word, val) ==
  IF i + Len(word) - 1 <= Len(s) /\ SubSeq(s, i, i + Len(word) - 1) = word
  THEN ParseOk(val, i + Len(word))
  ELSE ParseFail

RECURSIVE ParseValue(_, _)
RECURSIVE ParseMembers(_, _, _)
RECURSIVE ParseElements(_, _, _)

\* the members of an object after "{" or ","; s[i] must open a key
ParseMembers(s, i, acc) ==
  LET key == ParseString(s, i)
      colon == SkipChars(s, key.next, JsonWhitespace)
      val == ParseValue(s, SkipChars(s, colon + 1, JsonWhitespace))
      after == SkipChars(s, val.next, JsonWhitespace)
      members == [k \in (DOMAIN acc) \cup {key.val.v} |->
                    IF k = key.val.v THEN val.val ELSE acc[k]]
  IN IF ~key.ok THEN ParseFail
     ELSE IF CharAt(s, colon) # ":" THEN ParseFail
     ELSE IF ~val.ok THEN ParseFail
     ELSE IF CharAt(s, after) = "}" THEN ParseOk(JObj(members), after + 1)
     ELSE IF CharAt(s, after) = ","
          THEN ParseMembers(s, SkipChars(s, after + 1, JsonWhitespace), members)
     ELSE ParseFail

\* the elements of an array after "[" or ","
ParseElements(s, i, acc) ==
  LET val == ParseValue(s, i)
      after == SkipChars(s, val.next, JsonWhitespace)
  IN IF ~val.ok THEN ParseFail
     ELSE IF CharAt(s, after) = "]" THEN ParseOk(JArr(Append(acc, val.val)), after + 1)
     ELSE IF CharAt(s, after) = ","
          THEN ParseElements(s, SkipChars(s, after + 1, JsonWhitespace),
                             Append(acc, val.val))
     ELSE ParseFail

ParseValue(s, i) ==
  LET c == CharAt(s, i)
      inner == SkipChars(s, i + 1, JsonWhitespace)
  IN IF c = "{"
     THEN IF CharAt(s, inner) = "}" THEN ParseOk(JObj(<<>>), inner + 1)
          ELSE ParseMembers(s, inner, <<>>)
     ELSE IF c = "["
     THEN IF CharAt(s, inner) = "]" THEN ParseOk(JArr(<<>>), inner + 1)
          ELSE ParseElements(s, inner, <<>>)
     ELSE IF c = Quote THEN ParseString(s, i)
     ELSE IF c \in DigitChars THEN ParseNumber(s, i)
     ELSE IF c = "n" THEN ParseLiteral(s, i, <<"n", "u", "l", "l">>, JNull)
     ELSE IF c = "t" THEN ParseLiteral(s, i, <<"t", "r", "u", "e">>, JBool(TRUE))
     ELSE IF c = "f" THEN ParseLiteral(s, i, <<"f", "a", "l", "s", "e">>, JBool(FALSE))
     ELSE ParseFail

\* json.loads(s): [ok, val]; ok = FALSE stands for json.JSONDecodeError
JsonLoads(s) ==
  LET val == ParseValue(s, SkipChars(s, 1, JsonWhitespace))
      end == SkipChars(s, val.next, JsonWhitespace)
  IN IF val.ok /\ end = Len(s) + 1
     THEN [ok |-> TRUE, val |-> val.val]
     ELSE [ok |-> FALSE, val |-> JNull]

(***************************************************************************)
(* The completion endpoint, as each caller sees one call: it fails, or it  *)
(* answers with a message whose content is a text or null.                 *)
(***************************************************************************)
ProviderError == [kind |-> "error", text |-> <<>>]
ProviderNull == [kind |-> "null", text |-> <<>>]
ProviderText(t) == [kind |-> "text", text |-> t]

\* all whitespace runs of at most n characters
RECURSIVE Pads(_)
Pads(n) ==
  IF n = 0 THEN {<<>>}
  ELSE Pads(n - 1) \cup {Append(p, c) : p \in Pads(n - 1), c \in PyWhitespace}

DocA1 == <<"{", Quote, "a", Quote, ":", "1", "}">>
DocList == <<"[", "1", "]">>
DocCut == <<"{", Quote, "a", Quote, ":", "1">>
DocWords == <<"h", "i">>
DocInlineCode == <<Tick, "a", Tick>>

\* JSON texts put together from their parts
JsonString(chars) == <<Quote>> \o chars \o <<Quote>>

RECURSIVE JoinComma(_)
JoinComma(texts) ==
  IF texts = <<>> THEN <<>>
  ELSE IF Len(texts) = 1 THEN texts[1]
  ELSE texts[1] \o <<",">> \o JoinComma(Tail(texts))

Member(key, text) == JsonString(key) \o <<":">> \o text
ObjectText(members) == <<"{">> \o JoinComma(members) \o <<"}">>
ArrayText(items) == <<"[">> \o JoinComma(items) \o <<"]">>

\* a document as a model may send it: optionally fenced, optionally padded
Wrapped(pre, open, gap1, body, gap2, close, post) ==
  pre \o open \o gap1 \o body \o gap2 \o close \o post

FencedJson(body) == FenceOpenJson \o <<Newline>> \o body \o <<Newline>> \o FenceClose
FencedBare(body) == FenceOpen \o <<Newline>> \o body \o <<Newline>> \o FenceClose

(***************************************************************************)
(* resume/resume_parser.py                                                 *)
(***************************************************************************)
\* a mutation of CleanFencePrefix: the two prefix tests in the other order
CleanFencePrefixSwapped(response) ==
  IF StartsWith(response, FenceOpen) THEN DropFirst(response, 3)
  ELSE IF StartsWith(response, FenceOpenJson) THEN DropFirst(response, 7)
  ELSE response

\* lines 63-66: the opening fence is cut off
CleanFencePrefix(response) ==
  IF StartsWith(response, FenceOpenJson) THEN DropFirst(response, 7)
  ELSE IF StartsWith(response, FenceOpen) THEN DropFirst(response, 3)
  ELSE response

\* lines 68-69: the closing fence is cut off
CleanFenceSuffix(response) ==
  IF EndsWith(response, FenceClose) THEN DropLast(response, 3) ELSE response

\* lines 62-71: the text handed to json.loads
CleanStripped(response) == Strip(CleanFenceSuffix(CleanFencePrefix(Strip(response))))

\* clean_json_response: [ok, val]; ok = FALSE stands for the raised Exception
clean_json_response(response) == JsonLoads(CleanStripped(response))

(***************************************************************************)
(* The fence stripping of the MCQ generator, question/app.py.               *)
(***************************************************************************)
\* a mutation of McqStripOpen: three characters go whatever they are
McqStripOpenAlways(raw_text) == DropFirst(raw_text, 3)

\* question/app.py line 122: re.sub(r"^```(?:json)?", "", raw_text)
McqStripOpen(raw_text) ==
  IF StartsWith(raw_text, FenceOpenJson) THEN DropFirst(raw_text, 7)
  ELSE IF StartsWith(raw_text, FenceOpen) THEN DropFirst(raw_text, 3)
  ELSE raw_text

\* question/app.py line 123: re.sub(r"```$", "", clean_text); $ also matches before one
\* newline that ends the text
McqStripClose(clean_text) ==
  IF EndsWith(clean_text, FenceClose) THEN DropLast(clean_text, 3)
  ELSE IF EndsWith(clean_text, FenceClose \o <<Newline>>)
  THEN DropLast(clean_text, 4) \o <<Newline>>
  ELSE clean_text

\* question/app.py lines 122-123
McqCleanText(raw_text) == Strip(McqStripClose(McqStripOpen(raw_text)))

\* one request in flight per service: each variable is that request's state
VARIABLES norm, resume, mentor, chat, career, mcq, upload

vars == <<norm, resume, mentor, chat, career, mcq, upload>>

\* the value of the variable of a service that takes no part in a run
Idle == [pc |-> "idle"]

(***************************************************************************)
(* The normalizer on its own: clean_json_response applied to one text, and *)
(* its stripping step applied once more to the text it produced.           *)
(***************************************************************************)
NormTexts ==
  {Wrapped(pre, open, gap1, body, gap2, close, post) :
     pre \in Pads(MaxPad), open \in {<<>>, FenceOpen, FenceOpenJson},
     gap1 \in {<<>>, <<Newline>>}, body \in {DocA1, DocList, DocCut, DocWords, DocInlineCode, <<>>},
     gap2 \in {<<>>, <<Newline>>}, close \in {<<>>, FenceClose},
     post \in Pads(MaxPad)}

NormClean ==
  /\ norm.pc = "clean"
  /\ norm' = [pc |-> "restrip", text |-> norm.text,
              stripped |-> CleanStripped(norm.text),
              parsed |-> clean_json_response(norm.text)]
  /\ UNCHANGED <<resume, mentor, chat, career, mcq, upload>>

NormRestrip ==
  /\ norm.pc = "restrip"
  /\ norm' = [norm EXCEPT !.pc = "done"] @@ [again |-> CleanStripped(norm.stripped)]
  /\ UNCHANGED <<resume, mentor, chat, career, mcq, upload>>

\* question/app.py lines 122-126 on the same text
NormMcqClean ==
  /\ norm.pc = "done"
  /\ norm' = [norm EXCEPT !.pc = "compared"]
               @@ [mcq_parsed |-> JsonLoads(McqCleanText(norm.text))]
  /\ UNCHANGED <<resume, mentor, chat, career, mcq, upload>>

NormNext == NormClean \/ NormRestrip \/ NormMcqClean

(***************************************************************************)
(* analyze_resume_pdf: extract, parse, score, recommend.                   *)
(***************************************************************************)
\* text_preview keeps resume_text[:500]
PreviewLimit == 500

\* what page.extract_text() gives for a page: nothing, blanks, or words
RECURSIVE PageLists(_)
PageLists(n) ==
  IF n = 0 THEN {<<>>}
  ELSE PageLists(n - 1)
         \cup {Append(ps, t) : ps \in PageLists(n - 1),
                               t \in {<<>>, <<Space>>, <<"c", "v">>, <<"c", "v", Newline>>}}

RECURSIVE JoinLines(_)
\* "\n".join(text)
JoinLines(texts) ==
  IF texts = <<>> THEN <<>>
  ELSE IF Len(texts) = 1 THEN texts[1]
  ELSE texts[1] \o <<Newline>> \o JoinLines(Tail(texts))

\* extract_text_from_pdf on a readable PDF: pages without text are skipped
extract_text_from_pdf(pages) == JoinLines(SelectSeq(pages, LAMBDA t : t # <<>>))

\* a mutation of NoTextExtracted: the text is tested without strip()
NoTextExtractedUnstripped(resume_text) == resume_text = <<>>

\* line 172: not resume_text.strip()
NoTextExtracted(resume_text) == Strip(resume_text) = <<>>

\* replies of the model to the parse, score and recommend prompts
ResumeOutcomes ==
  {ProviderError, ProviderNull}
    \cup {ProviderText(t) :
            t \in {DocA1, FencedJson(DocA1), FencedBare(DocList),
                   <<Space>> \o FencedJson(DocA1), DocWords, FencedJson(DocCut)}}

\* a mutation of ResumeFailure: the stages' results stay in the envelope
ResumeFailurePartial(r, msg) ==
  [r EXCEPT !.pc = "done",
            !.result = [success |-> FALSE, error |-> msg,
                        parsed_resume |-> r.parsed_resume]]

\* lines 195-199: the envelope of a failed analysis
ResumeFailure(r, msg) ==
  [r EXCEPT !.pc = "done", !.result = [success |-> FALSE, error |-> msg]]

text_preview(resume_text) ==
  IF Len(resume_text) > PreviewLimit
  THEN TakeFirst(resume_text, PreviewLimit) \o <<".", ".", ".">>
  ELSE resume_text

\* one stage (parse_resume, score_resume, recommend_improvements) of the
\* pipeline: ask_llm, then clean_json_response; field names where it is kept
ResumeStage(stage, field, nextPc, out) ==
  IF ~resume.key THEN ResumeFailure(resume, "Groq API key not configured")
  ELSE LET sent == [resume EXCEPT !.calls = Append(@, stage)]
           cleaned == clean_json_response(out.text)
       IN IF out.kind = "error" THEN ResumeFailure(sent, "Groq API error")
          ELSE IF out.kind = "null"
          THEN ResumeFailure(sent, "'NoneType' object has no attribute 'strip'")
          ELSE IF ~cleaned.ok THEN ResumeFailure(sent, "Failed to parse JSON response")
          ELSE [sent EXCEPT !.pc = nextPc, ![field] = cleaned.val,
                            !.succeeded = Append(@, stage)]

\* lines 168-173: the PDF cannot be read, or its text is extracted and checked
AnalyzeExtract ==
  /\ resume.pc = "extract"
  /\ \/ resume' = ResumeFailure(resume, "PDF extraction error")
     \/ LET resume_text == extract_text_from_pdf(resume.pages)
            read == [resume EXCEPT !.extracted = TRUE, !.resume_text = resume_text]
        IN resume' =
             IF NoTextExtracted(resume_text)
             THEN ResumeFailure(read, "No text could be extracted from the PDF")
             ELSE [read EXCEPT !.pc = "parse"]
  /\ UNCHANGED <<norm, mentor, chat, career, mcq, upload>>

AnalyzeParse ==
  /\ resume.pc = "parse"
  /\ \E out \in ResumeOutcomes :
       resume' = ResumeStage("parse", "parsed_resume", "score", out)
  /\ UNCHANGED <<norm, mentor, chat, career, mcq, upload>>

AnalyzeScore ==
  /\ resume.pc = "score"
  /\ \E out \in ResumeOutcomes :
       resume' = ResumeStage("score", "scores", "recommend", out)
  /\ UNCHANGED <<norm, mentor, chat, career, mcq, upload>>

AnalyzeRecommend ==
  /\ resume.pc = "recommend"
  /\ \E out \in ResumeOutcomes :
       LET r == ResumeStage("recommend", "recommendations", "return", out)
       IN resume' =
            IF r.pc # "return" THEN r
            ELSE [r EXCEPT !.pc = "done",
                           !.result = [success |-> TRUE,
                                       parsed_resume |-> r.parsed_resume,
                                       scores |-> r.scores,
                                       recommendations |-> r.recommendations,
                                       text_preview |-> text_preview(r.resume_text)]]
  /\ UNCHANGED <<norm, mentor, chat, career, mcq, upload>>

ResumeNext == AnalyzeExtract \/ AnalyzeParse \/ AnalyzeScore \/ AnalyzeRecommend

(***************************************************************************)
(* mentor/app.py: POST /chat                                               *)
(***************************************************************************)
tool_keywords ==
  <<<<"s", "e", "a", "r", "c", "h">>,
    <<"f", "i", "n", "d">>,
    <<"l", "o", "o", "k", "u", "p">>,
    <<"j", "o", "b">>,
    <<"c", "a", "r", "e", "e", "r">>,
    <<"p", "o", "s", "i", "t", "i", "o", "n">>,
    <<"r", "o", "l", "e">>,
    <<"w", "e", "l", "l", "n", "e", "s", "s">>,
    <<"s", "t", "r", "e", "s", "s">>,
    <<"a", "n", "x", "i", "e", "t", "y">>,
    <<"m", "e", "n", "t", "a", "l", Space, "h", "e", "a", "l", "t", "h">>,
    <<"c", "a", "l", "m">>,
    <<"c", "a", "l", "e", "n", "d", "a", "r">>,
    <<"s", "c", "h", "e", "d", "u", "l", "e">>,
    <<"m", "e", "e", "t", "i", "n", "g">>,
    <<"a", "p", "p", "o", "i", "n", "t", "m", "e", "n", "t">>,
    <<"i", "n", "v", "i", "t", "e">>,
    <<"w", "e", "b">>,
    <<"i", "n", "t", "e", "r", "n", "e", "t">>,
    <<"o", "n", "l", "i", "n", "e">>,
    <<"l", "a", "t", "e", "s", "t">>,
    <<"c", "u", "r", "r", "e", "n", "t">>,
    <<"t", "r", "e", "n", "d">>>>

simple_questions ==
  <<<<"h", "o", "w", Space, "a", "r", "e", Space, "y", "o", "u">>,
    <<"w", "h", "a", "t", Space, "i", "s">>,
    <<"w", "h", "o", Space, "i", "s">>,
    <<"w", "h", "e", "n", Space, "i", "s">>,
    <<"w", "h", "e", "r", "e", Space, "i", "s">>,
    <<"w", "h", "y">>,
    <<"e", "x", "p", "l", "a", "i", "n">>,
    <<"t", "e", "l", "l", Space, "m", "e", Space, "a", "b", "o", "u", "t">>,
    <<"d", "e", "f", "i", "n", "e">>,
    <<"d", "e", "s", "c", "r", "i", "b", "e">>>>

\* the simple questions looked at before the keywords
should_use_tools_questions_first(message) ==
  LET message_lower == Lower(message)
  IN IF \E q \in 1..Len(simple_questions) :
          StartsWith(message_lower, simple_questions[q])
     THEN FALSE
     ELSE \E k \in 1..Len(tool_keywords) : Contains(message_lower, tool_keywords[k])

should_use_tools(message) ==
  LET message_lower == Lower(message)
  IN IF \E k \in 1..Len(tool_keywords) : Contains(message_lower, tool_keywords[k])
     THEN TRUE
     ELSE IF \E q \in 1..Len(simple_questions) :
               StartsWith(message_lower, simple_questions[q])
     THEN FALSE
     ELSE FALSE

\* the names of the registered tools
ToolNames == {"web_search", "job_search", "wellness_guide", "calendar"}

\* the tool calls a reply of the model asks for: the name of a registered
\* tool or of none, the arguments {} or a cut object
ToolCalls ==
  [name : {"job_search", "calendar", "resume_review"}, arguments : {<<"{", "}">>, DocCut}]

RECURSIVE ToolCallLists(_)
ToolCallLists(n) ==
  IF n = 0 THEN {<<>>}
  ELSE ToolCallLists(n - 1)
         \cup {Append(l, c) : l \in {x \in ToolCallLists(n - 1) : Len(x) = n - 1},
                              c \in ToolCalls}

\* messages of requests
Msgs ==
  [Hi |-> <<"h", "i">>,
   FindJob |-> <<"F", "i", "n", "d", Space, "a", Space, "J", "O", "B">>,
   Meeting |-> <<"s", "c", "h", "e", "d", "u", "l", "e", Space, "a", Space, "m", "e",
      "e", "t", "i", "n", "g">>,
   WhatIsCareer |-> <<"w", "h", "a", "t", Space, "i", "s", Space, "a", Space, "c",
      "a", "r", "e", "e", "r">>,
   WhatIsAi |-> <<"w", "h", "a", "t", Space, "i", "s", Space, "A", "I">>]

MentorMessages == {<<>>} \cup {Msgs[m] : m \in DOMAIN Msgs}

\* the texts a completion may hold
AnswerA == <<"a", "n", "s", "w", "e", "r", Space, "A">>
AnswerB == <<"a", "n", "s", "w", "e", "r", Space, "B">>
ContentTexts == {AnswerA, AnswerB}

\* a completion call without tools: it fails, or its content is null or a text
PlainOutcomes == {ProviderError, ProviderNull} \cup {ProviderText(t) : t \in ContentTexts}

\* the call that advertises the tools: its message may also ask for tool calls
FirstOutcomes ==
  {[kind |-> "error", text |-> <<>>, tool_calls |-> <<>>]}
    \cup {[kind |-> o.kind, text |-> o.text, tool_calls |-> tc] :
            o \in PlainOutcomes \ {ProviderError}, tc \in ToolCallLists(MaxToolCalls)}

\* the fixed sentences of the code are kept whole, as one element
FallbackApology ==
  <<"I apologize, but I'm having trouble processing your question right now. Error: Groq API error">>
TechnicalDifficulties ==
  <<"I apologize, but I'm experiencing technical difficulties. Please try again later.">>

\* the call is put in the log of the request with the payload it carries
MentorSent(m, purpose, out) ==
  [m EXCEPT !.calls = Append(@, [purpose |-> purpose,
                                 tools |-> (purpose = "tools"),
                                 system_prompt |-> (purpose = "fallback"),
                                 outcome |-> out])]

\* return ChatResponse(response=..., status=...)
MentorReturn(m, text, status) ==
  [m EXCEPT !.pc = "done", !.response = text, !.status = status, !.http = 200]

\* raise HTTPException(status_code=..., detail=...) reaching the client
MentorHttpError(m, code, detail) ==
  [m EXCEPT !.pc = "done", !.http = code, !.response = <<detail>>]

\* a mutation of MentorToolError: the exception reaches the client
MentorToolErrorSurfaced(m, what) ==
  MentorHttpError([m EXCEPT !.tool_failure = what], 500, "Internal Server Error")

\* line 241: the inner except takes every exception of the tool path
MentorToolError(m, what) ==
  [m EXCEPT !.pc = "tool_fallback", !.tool_failure = what]

\* get_fallback_response: the content of a plain call, or the apology when
\* the call fails; a null content is returned as None
get_fallback_response(out) ==
  IF out.kind = "error" THEN ProviderText(FallbackApology) ELSE out

\* ChatResponse(response=content, status="success"): response must be a
\* str, so a null content raises the ValidationError that onInvalid takes
ReturnContent(m, content, onInvalid) ==
  IF content.kind = "null" THEN onInvalid
  ELSE MentorReturn(m, content.text, "success")

\* lines 225-239, after the loop over the tool calls
AfterToolCalls(m) ==
  IF m.tool_results # <<>> THEN [m EXCEPT !.pc = "follow_up"]
  ELSE ReturnContent([m EXCEPT !.direct = TRUE], m.first_content,
                     MentorToolError(m, "null_content"))

\* lines 189-199 and 246: the checks of the request and the choice of path
MentorChat ==
  /\ mentor.pc = "chat"
  /\ mentor' =
       IF ~mentor.key THEN MentorHttpError(mentor, 500, "Groq API key not configured")
       ELSE IF mentor.message = <<>>
       THEN [mentor EXCEPT !.pc = "outer_fallback", !.rejected = TRUE]
       ELSE IF should_use_tools(mentor.message) THEN [mentor EXCEPT !.pc = "first_call"]
       ELSE [mentor EXCEPT !.pc = "general"]
  /\ UNCHANGED <<norm, resume, chat, career, mcq, upload>>

\* lines 202-211: the call that advertises the tools
MentorFirstCall ==
  /\ mentor.pc = "first_call"
  /\ \E out \in FirstOutcomes :
       LET sent == MentorSent(mentor, "tools", out)
           got == [sent EXCEPT !.first_content = [kind |-> out.kind, text |-> out.text],
                               !.tool_calls = out.tool_calls]
       IN mentor' =
            IF out.kind = "error" THEN MentorToolError(sent, "first_call")
            ELSE IF out.tool_calls # <<>> THEN [got EXCEPT !.pc = "tool_calls"]
            ELSE AfterToolCalls(got)
  /\ UNCHANGED <<norm, resume, chat, career, mcq, upload>>

\* lines 213-222: one tool call of the reply; the tool returns or throws
MentorToolCall ==
  /\ mentor.pc = "tool_calls"
  /\ \E thrown \in BOOLEAN :
       LET tool_call == mentor.tool_calls[mentor.next_tool]
           tool_args == JsonLoads(tool_call.arguments)
           last == (mentor.next_tool = Len(mentor.tool_calls))
           step == [mentor EXCEPT !.next_tool = @ + 1]
           found == [step EXCEPT !.tool_results = Append(@, tool_call.name)]
           missed == [step EXCEPT !.lookup_miss = TRUE]
       IN mentor' =
            IF ~tool_args.ok THEN MentorToolError(mentor, "bad_arguments")
            ELSE IF tool_call.name \notin ToolNames
            THEN (IF last THEN AfterToolCalls(missed) ELSE missed)
            ELSE IF thrown THEN MentorToolError(mentor, "tool_exception")
            ELSE (IF last THEN AfterToolCalls(found) ELSE found)
  /\ UNCHANGED <<norm, resume, chat, career, mcq, upload>>

\* lines 226-236: the call that carries the tool results
MentorFollowUp ==
  /\ mentor.pc = "follow_up"
  /\ \E out \in PlainOutcomes :
       LET sent == MentorSent(mentor, "follow_up", out)
       IN mentor' =
            IF out.kind = "error" THEN MentorToolError(sent, "follow_up")
            ELSE ReturnContent(sent, out, MentorToolError(sent, "null_content"))
  /\ UNCHANGED <<norm, resume, chat, career, mcq, upload>>

\* lines 241-245: the fallback of the tool path; an exception raised here
\* leaves the inner handler and is taken by the outer one
MentorToolFallback ==
  /\ mentor.pc = "tool_fallback"
  /\ \E out \in PlainOutcomes :
       LET sent == MentorSent(mentor, "fallback", out)
       IN mentor' = ReturnContent(sent, get_fallback_response(out),
                                  [sent EXCEPT !.pc = "outer_fallback"])
  /\ UNCHANGED <<norm, resume, chat, career, mcq, upload>>

\* lines 246-249: a message without tool keyword
MentorGeneral ==
  /\ mentor.pc = "general"
  /\ \E out \in PlainOutcomes :
       LET sent == MentorSent(mentor, "fallback", out)
       IN mentor' = ReturnContent(sent, get_fallback_response(out),
                                  [sent EXCEPT !.pc = "outer_fallback"])
  /\ UNCHANGED <<norm, resume, chat, career, mcq, upload>>

\* lines 251-260: the outer handler takes every Exception raised in the try,
\* the HTTPException of an empty message among them
MentorOuterFallback ==
  /\ mentor.pc = "outer_fallback"
  /\ \E out \in PlainOutcomes :
       LET sent == MentorSent(mentor, "fallback", out)
       IN mentor' = ReturnContent(sent, get_fallback_response(out),
                                  MentorReturn(sent, TechnicalDifficulties, "error"))
  /\ UNCHANGED <<norm, resume, chat, career, mcq, upload>>

MentorNext ==
  \/ MentorChat \/ MentorFirstCall \/ MentorToolCall \/ MentorFollowUp
  \/ MentorToolFallback \/ MentorGeneral \/ MentorOuterFallback

(***************************************************************************)
(* chatbot/app.py: the menu router, the text pipeline, POST /chat/enhanced *)
(***************************************************************************)

\* the option ids of knowledge_base and of handle_option_selection, and four
\* ids no table holds: go_settings, go_only, settings, GO_ATS
Ids ==
  [main_menu |-> <<"m", "a", "i", "n", "_", "m", "e", "n", "u">>,
   navigate_pages |-> <<"n", "a", "v", "i", "g", "a", "t", "e", "_", "p", "a", "g",
      "e", "s">>,
   explore_features |-> <<"e", "x", "p", "l", "o", "r", "e", "_", "f", "e", "a", "t",
      "u", "r", "e", "s">>,
   career_help |-> <<"c", "a", "r", "e", "e", "r", "_", "h", "e", "l", "p">>,
   quick_actions |-> <<"q", "u", "i", "c", "k", "_", "a", "c", "t", "i", "o", "n",
      "s">>,
   free_text |-> <<"f", "r", "e", "e", "_", "t", "e", "x", "t">>,
   feature_career |-> <<"f", "e", "a", "t", "u", "r", "e", "_", "c", "a", "r", "e",
      "e", "r">>,
   feature_analysis |-> <<"f", "e", "a", "t", "u", "r", "e", "_", "a", "n", "a", "l",
      "y", "s", "i", "s">>,
   feature_networking |-> <<"f", "e", "a", "t", "u", "r", "e", "_", "n", "e", "t",
      "w", "o", "r", "k", "i", "n", "g">>,
   go_dashboard |-> <<"g", "o", "_", "d", "a", "s", "h", "b", "o", "a", "r", "d">>,
   go_career_paths |-> <<"g", "o", "_", "c", "a", "r", "e", "e", "r", "_", "p", "a",
      "t", "h", "s">>,
   go_skills |-> <<"g", "o", "_", "s", "k", "i", "l", "l", "s">>,
   go_resume |-> <<"g", "o", "_", "r", "e", "s", "u", "m", "e">>,
   go_jobs |-> <<"g", "o", "_", "j", "o", "b", "s">>,
   go_mentorship |-> <<"g", "o", "_", "m", "e", "n", "t", "o", "r", "s", "h", "i",
      "p">>,
   go_community |-> <<"g", "o", "_", "c", "o", "m", "m", "u", "n", "i", "t", "y">>,
   go_profile |-> <<"g", "o", "_", "p", "r", "o", "f", "i", "l", "e">>,
   go_ats |-> <<"g", "o", "_", "a", "t", "s">>,
   go_settings |-> <<"g", "o", "_", "s", "e", "t", "t", "i", "n", "g", "s">>,
   go_only |-> <<"g", "o", "_">>,
   settings |-> <<"s", "e", "t", "t", "i", "n", "g", "s">>,
   GO_ATS |-> <<"G", "O", "_", "A", "T", "S">>]

\* knowledge_base["pages"][page]["name"]
page_names ==
  [p \in {"/dashboard", "/career-paths", "/skills-analysis", "/resume-builder",
          "/job-market", "/mentorship", "/community", "/profile", "/ats"} |->
     CASE p = "/dashboard" -> "Dashboard"
       [] p = "/career-paths" -> "Career Paths"
       [] p = "/skills-analysis" -> "Skills Analysis"
       [] p = "/resume-builder" -> "Resume Builder"
       [] p = "/job-market" -> "Job Market"
       [] p = "/mentorship" -> "Mentorship"
       [] p = "/community" -> "Community"
       [] p = "/profile" -> "Profile"
       [] p = "/ats" -> "ATS Analysis"]

\* knowledge_base["main_menu"]["options"], each option by its id
main_menu_options ==
  <<[id |-> Ids.explore_features], [id |-> Ids.navigate_pages], [id |-> Ids.career_help],
    [id |-> Ids.quick_actions], [id |-> Ids.free_text]>>

\* knowledge_base["navigate_options"]
navigate_options ==
  <<[id |-> Ids.go_dashboard, page |-> "/dashboard"],
    [id |-> Ids.go_career_paths, page |-> "/career-paths"],
    [id |-> Ids.go_skills, page |-> "/skills-analysis"],
    [id |-> Ids.go_resume, page |-> "/resume-builder"],
    [id |-> Ids.go_jobs, page |-> "/job-market"],
    [id |-> Ids.go_mentorship, page |-> "/mentorship"],
    [id |-> Ids.go_community, page |-> "/community"],
    [id |-> Ids.go_profile, page |-> "/profile"],
    [id |-> Ids.go_ats, page |-> "/ats"]>>

get_main_menu ==
  [type |-> "options", message |-> <<"Welcome to Student Advisor Portal!">>,
   options |-> main_menu_options, confidence |-> 100]

handle_navigation_option(option_id) ==
  LET hits == SelectSeq(navigate_options, LAMBDA opt : opt.id = option_id)
  IN IF hits # <<>>
     THEN [type |-> "navigation", message |-> <<"Taking you to", page_names[hits[1].page]>>,
           page |-> hits[1].page, confidence |-> 95,
           follow_up_options |-> <<[id |-> Ids.main_menu], [id |-> Ids.navigate_pages]>>]
     ELSE [type |-> "error", message |-> <<"Page not found">>, confidence |-> 0]

handle_option_selection(option_id) ==
  IF option_id = Ids.main_menu THEN get_main_menu
  ELSE IF option_id = Ids.navigate_pages
  THEN [type |-> "options", message |-> <<"Quick Navigation - Where would you like to go?">>,
        options |-> [i \in 1..Len(navigate_options) |-> [id |-> navigate_options[i].id]]
                      \o <<[id |-> Ids.main_menu]>>,
        confidence |-> 100]
  ELSE IF StartsWith(option_id, <<"g", "o", "_">>) THEN handle_navigation_option(option_id)
  ELSE IF option_id = Ids.explore_features
  THEN [type |-> "options", message |-> <<"Platform Features - What would you like to explore?">>,
        options |-> <<[id |-> Ids.feature_career], [id |-> Ids.feature_analysis],
                      [id |-> Ids.feature_networking], [id |-> Ids.main_menu]>>,
        confidence |-> 98]
  ELSE IF option_id = Ids.career_help
  THEN [type |-> "advice", message |-> <<"Career Guidance Available">>, confidence |-> 95,
        follow_up_options |-> <<[id |-> Ids.go_career_paths], [id |-> Ids.go_skills],
                                [id |-> Ids.go_resume], [id |-> Ids.main_menu]>>]
  ELSE IF option_id = Ids.quick_actions
  THEN [type |-> "options", message |-> <<"Quick Actions - Popular features:">>,
        options |-> <<[id |-> Ids.go_skills], [id |-> Ids.go_ats], [id |-> Ids.go_jobs],
                      [id |-> Ids.go_dashboard], [id |-> Ids.main_menu]>>,
        confidence |-> 100]
  ELSE [type |-> "error",
        message |-> <<"I didn't understand that option. Let me show you the main menu.">>,
        confidence |-> 0, follow_up_options |-> <<[id |-> Ids.main_menu]>>]

\* the keyword table of process_text_with_groq, in the order of its definition
keyword_to_page ==
  <<[keyword |-> <<"s", "k", "i", "l", "l">>, page |-> "/skills-analysis"],
    [keyword |-> <<"r", "e", "s", "u", "m", "e">>, page |-> "/resume-builder"],
    [keyword |-> <<"c", "v">>, page |-> "/resume-builder"],
    [keyword |-> <<"j", "o", "b">>, page |-> "/job-market"],
    [keyword |-> <<"c", "a", "r", "e", "e", "r">>, page |-> "/career-paths"],
    [keyword |-> <<"p", "a", "t", "h">>, page |-> "/career-paths"],
    [keyword |-> <<"m", "e", "n", "t", "o", "r">>, page |-> "/mentorship"],
    [keyword |-> <<"c", "o", "m", "m", "u", "n", "i", "t", "y">>, page |-> "/community"],
    [keyword |-> <<"p", "r", "o", "f", "i", "l", "e">>, page |-> "/profile"],
    [keyword |-> <<"a", "t", "s">>, page |-> "/ats"],
    [keyword |-> <<"d", "a", "s", "h", "b", "o", "a", "r", "d">>, page |-> "/dashboard"]>>

\* a mutation of suggested_pages: the text is matched without lower()
suggested_pages_case_sensitive(text) ==
  LET hits == SelectSeq(keyword_to_page, LAMBDA e : Contains(text, e.keyword))
  IN [i \in 1..Len(hits) |-> hits[i].page]

\* lines 303-323: the pages of the keywords the text holds, in table order
suggested_pages(text) ==
  LET text_lower == Lower(text)
      hits == SelectSeq(keyword_to_page, LAMBDA e : Contains(text_lower, e.keyword))
  IN [i \in 1..Len(hits) |-> hits[i].page]

\* what one call of the chatbot's call_groq_api ends in: a content (a text
\* or null), a requests exception, a reply without the expected field, or a
\* reply whose shape raises another exception (a TypeError)
ChatOutcomes ==
  {ProviderText(AnswerA), ProviderNull,
   [kind |-> "request_error", text |-> <<>>],
   [kind |-> "missing_field", text |-> <<>>],
   [kind |-> "malformed", text |-> <<>>]}

\* lines 175-188: the value call_groq_api returns when it returns
ChatCompletionText(out) ==
  CASE out.kind = "text" -> out.text
    [] out.kind = "null" -> None
    [] out.kind = "request_error" ->
         <<"I'm having trouble processing your request right now. Please try again later.">>
    [] out.kind = "missing_field" ->
         <<"I received an unexpected response. Please try again.">>

\* lines 299-350 of process_text_with_groq, after the call
process_text_with_groq(text, out) ==
  IF out.kind = "malformed"
  THEN [type |-> "error",
        message |-> <<"I'm having trouble processing your request. Please try the menu options or ask again.">>,
        confidence |-> 0, follow_up_options |-> <<[id |-> Ids.main_menu]>>]
  ELSE LET pages == suggested_pages(text)
           result == [type |-> "text", message |-> ChatCompletionText(out),
                      confidence |-> 85,
                      follow_up_options |-> <<[id |-> Ids.main_menu]>>]
       IN IF pages # <<>>
          THEN result @@ [actions |-> <<[type |-> "navigate", page |-> pages[1],
                                         label |-> <<"Go to", page_names[pages[1]]>>]>>]
          ELSE result

OptionIds == {Ids[i] : i \in DOMAIN Ids}

\* words of free-text messages
Words ==
  [Skills |-> <<"S", "k", "i", "l", "l", "s">>,
   resume |-> <<"r", "e", "s", "u", "m", "e">>,
   JOB |-> <<"J", "O", "B">>,
   stats |-> <<"s", "t", "a", "t", "s">>,
   career |-> <<"c", "a", "r", "e", "e", "r">>,
   hello |-> <<"h", "e", "l", "l", "o">>]

\* the messages of one to n words, a blank between two words
RECURSIVE ChatMessages(_)
ChatMessages(n) ==
  IF n = 1 THEN {Words[w] : w \in DOMAIN Words}
  ELSE ChatMessages(n - 1)
         \cup {m \o <<Space>> \o w : m \in ChatMessages(n - 1),
                                      w \in {Words[k] : k \in DOMAIN Words}}

ChatReply(c, response) ==
  [c EXCEPT !.pc = "done", !.reply = [success |-> TRUE, response |-> response]]

\* the turn told apart by the field it carries, not by its input_type
EnhancedChatByField ==
  /\ chat.pc = "request"
  /\ chat' =
       IF Truthy(chat.message) THEN [chat EXCEPT !.pc = "completion"]
       ELSE IF Truthy(chat.option_id) /\ chat.option_id # Ids.main_menu
       THEN ChatReply(chat, handle_option_selection(chat.option_id))
       ELSE ChatReply(chat, get_main_menu)
  /\ UNCHANGED <<norm, resume, mentor, career, mcq, upload>>

\* lines 369-386: the turn is an option, a text, or neither
EnhancedChat ==
  /\ chat.pc = "request"
  /\ chat' =
       IF chat.input_type = "option" /\ Truthy(chat.option_id)
       THEN IF chat.option_id = Ids.main_menu \/ ~Truthy(chat.option_id)
            THEN ChatReply(chat, get_main_menu)
            ELSE ChatReply(chat, handle_option_selection(chat.option_id))
       ELSE IF chat.input_type = "text" /\ Truthy(chat.message)
       THEN [chat EXCEPT !.pc = "completion"]
       ELSE ChatReply(chat, get_main_menu)
  /\ UNCHANGED <<norm, resume, mentor, career, mcq, upload>>

\* line 377: process_text_with_groq sends its one call; without credential
\* the endpoint refuses the call, which is a requests exception
ProcessText ==
  /\ chat.pc = "completion"
  /\ \E out \in ChatOutcomes :
       /\ (~chat.key => out.kind = "request_error")
       /\ chat' = ChatReply([chat EXCEPT !.calls = Append(@, out)],
                            process_text_with_groq(chat.message, out))
  /\ UNCHANGED <<norm, resume, mentor, career, mcq, upload>>

ChatNext == EnhancedChat \/ ProcessText

\* the ids a response puts before the user, in options or follow_up_options
Offered(response) ==
  (IF "options" \in DOMAIN response
   THEN {response.options[i].id : i \in 1..Len(response.options)} ELSE {})
    \cup (IF "follow_up_options" \in DOMAIN response
          THEN {response.follow_up_options[i].id :
                  i \in 1..Len(response.follow_up_options)}
          ELSE {})

\* lines 369-374, one option turn of a conversation: the user selects one
\* of the options of the response on the screen
SelectOffered ==
  /\ chat.pc = "browsing"
  /\ Len(chat.selected) < MaxTurns
  /\ \E option_id \in Offered(chat.shown) :
       chat' = [chat EXCEPT
                  !.shown = IF option_id = Ids.main_menu THEN get_main_menu
                            ELSE handle_option_selection(option_id),
                  !.selected = Append(@, option_id)]
  /\ UNCHANGED <<norm, resume, mentor, career, mcq, upload>>

(***************************************************************************)
(* skill_recommendation/career_orchestrator.py: CareerOrchestrator.run,    *)
(* called by POST /analyze-profile/ of skill_recommendation/app.py         *)
(***************************************************************************)

\* the keys of the JSON objects the orchestrator reads and writes
Keys ==
  [skills |-> <<"s", "k", "i", "l", "l", "s">>,
   academics |-> <<"a", "c", "a", "d", "e", "m", "i", "c", "s">>,
   interests |-> <<"i", "n", "t", "e", "r", "e", "s", "t", "s">>,
   career_name |-> <<"c", "a", "r", "e", "e", "r", "_", "n", "a", "m", "e">>,
   required_skills |-> <<"r", "e", "q", "u", "i", "r", "e", "d", "_", "s", "k", "i",
      "l", "l", "s">>,
   reasoning |-> <<"r", "e", "a", "s", "o", "n", "i", "n", "g">>,
   explanation |-> <<"e", "x", "p", "l", "a", "n", "a", "t", "i", "o", "n">>]

\* lines 75-80 and 102-107: only the json fence is cut at the front
CareerStripped(response) ==
  LET stripped == Strip(response)
      opened == IF StartsWith(stripped, FenceOpenJson) THEN DropFirst(stripped, 7)
                ELSE stripped
      closed == IF EndsWith(opened, FenceClose) THEN DropLast(opened, 3) ELSE opened
  IN Strip(closed)

\* a mutation of CareerLoads: a reply that cannot be read is given up as null
CareerLoadsNoDefault(out, default) ==
  IF out.kind = "null" THEN JNull
  ELSE LET loaded == JsonLoads(CareerStripped(out.text))
       IN IF loaded.ok THEN loaded.val ELSE JNull

\* the try blocks of lines 73-83 and 100-116: any exception (None has no
\* strip, the text is not JSON) gives the default
CareerLoads(out, default) ==
  IF out.kind = "null" THEN default
  ELSE LET loaded == JsonLoads(CareerStripped(out.text))
       IN IF loaded.ok THEN loaded.val ELSE default

\* line 83
DefaultProfile ==
  JObj((Keys.skills :> JArr(<<>>)) @@ (Keys.academics :> JNull)
         @@ (Keys.interests :> JArr(<<>>)))

\* lines 110-116
FallbackSuggestions ==
  JArr(<<JObj((Keys.career_name :> JStr(<<"General Career Suggestion">>))
              @@ (Keys.required_skills :>
                    JArr(<<JStr(<<"Communication">>), JStr(<<"Problem-solving">>),
                           JStr(<<"Adaptability">>)>>))
              @@ (Keys.reasoning :>
                    JStr(<<"Based on your profile, these foundational skills will help in many career paths.">>)))>>)

\* dict.get(key, [])
GetOrEmptyList(obj, key) == IF key \in DOMAIN obj.v THEN obj.v[key] ELSE JArr(<<>>)

\* ', '.join(v) accepts a str, a dict, and a list of str
Joinable(v) ==
  \/ v.t \in {"str", "obj"}
  \/ v.t = "arr" /\ \A i \in 1..Len(v.v) : v.v[i].t = "str"

\* lines 119-130: the prompt of _generate_explanation can be built
CanExplain(recommendation, student_profile) ==
  /\ recommendation.t = "obj"
  /\ Keys.career_name \in DOMAIN recommendation.v
  /\ student_profile.t = "obj"
  /\ Joinable(GetOrEmptyList(student_profile, Keys.skills))
  /\ Joinable(GetOrEmptyList(recommendation, Keys.required_skills))

\* the suggestion left as the model gave it
WithExplanationDropped(s, value) == s

\* line 142: s["explanation"] = value
WithExplanation(s, value) ==
  JObj([k \in (DOMAIN s.v) \cup {Keys.explanation} |->
          IF k = Keys.explanation THEN value ELSE s.v[k]])

ProfileText ==
  ObjectText(<<Member(Keys.skills, ArrayText(<<JsonString(<<"P", "y">>)>>)),
               Member(Keys.academics, JsonString(<<"B", "S", "c">>)),
               Member(Keys.interests, ArrayText(<<>>))>>)

SuggestionText(name) ==
  ObjectText(<<Member(Keys.career_name, JsonString(name)),
               Member(Keys.required_skills, ArrayText(<<JsonString(<<"S", "Q", "L">>)>>)),
               Member(Keys.reasoning, JsonString(<<"f", "i", "t">>))>>)

SuggestionsText(n) ==
  LET names == <<<<"D", "e", "v">>, <<"O", "p", "s">>, <<"Q", "A">>>>
  IN ArrayText([i \in 1..n |-> SuggestionText(names[((i - 1) % 3) + 1])])

ProfileOutcomes ==
  {ProviderError, ProviderNull}
    \cup {ProviderText(t) :
            t \in {ProfileText, FencedJson(ProfileText), DocA1, DocList, DocWords}}

SuggestionOutcomes ==
  {ProviderError, ProviderNull}
    \cup {ProviderText(t) : t \in {DocA1, DocList, DocWords, DocCut, <<"[", "]">>}}
    \cup UNION {{ProviderText(SuggestionsText(n)),
                 ProviderText(FencedJson(SuggestionsText(n))),
                 ProviderText(FencedBare(SuggestionsText(n)))} : n \in 1..MaxSuggestions}

ExplanationOutcomes ==
  {ProviderError, ProviderNull, ProviderText(AnswerA), ProviderText(AnswerB)}

\* lines 76-80 of skill_recommendation/app.py: run returned
CareerReturn(c) ==
  [c EXCEPT !.pc = "done", !.result = [recommendations |-> c.suggestions]]

\* the except of analyze_profile: run raised
CareerRaise(c, why) == [c EXCEPT !.pc = "done", !.result = [error |-> why]]

CareerSent(c, purpose, out) ==
  [c EXCEPT !.calls = Append(@, [purpose |-> purpose, outcome |-> out])]

\* line 135: _parse_student_profile
ParseStudentProfile ==
  /\ career.pc = "profile"
  /\ IF ~career.key
     THEN career' = CareerRaise(career, "Groq API key not configured")
     ELSE \E out \in ProfileOutcomes :
            LET sent == CareerSent(career, "profile", out)
            IN career' =
                 IF out.kind = "error" THEN CareerRaise(sent, "Groq API error")
                 ELSE [sent EXCEPT !.pc = "suggest",
                                   !.parsed_profile = CareerLoads(out, DefaultProfile)]
  /\ UNCHANGED <<norm, resume, mentor, chat, mcq, upload>>

\* line 138: _generate_career_suggestions
GenerateCareerSuggestions ==
  /\ career.pc = "suggest"
  /\ \E out \in SuggestionOutcomes :
       LET sent == CareerSent(career, "suggestions", out)
       IN career' =
            IF out.kind = "error" THEN CareerRaise(sent, "Groq API error")
            ELSE [sent EXCEPT !.pc = "explain",
                              !.suggestions = CareerLoads(out, FallbackSuggestions)]
  /\ UNCHANGED <<norm, resume, mentor, chat, mcq, upload>>

\* lines 141-142, one turn of the loop over a list
GenerateExplanation ==
  /\ career.pc = "explain"
  /\ career.suggestions.t = "arr"
  /\ career.next <= Len(career.suggestions.v)
  /\ LET s == career.suggestions.v[career.next]
     IN IF ~CanExplain(s, career.parsed_profile)
        THEN career' = CareerRaise(career, "TypeError")
        ELSE \E out \in ExplanationOutcomes :
               LET sent == CareerSent(career, "explanation", out)
                   value == IF out.kind = "null" THEN JNull ELSE JStr(out.text)
               IN career' =
                    IF out.kind = "error" THEN CareerRaise(sent, "Groq API error")
                    ELSE [sent EXCEPT !.suggestions.v[career.next] = WithExplanation(s, value),
                                      !.next = @ + 1]
  /\ UNCHANGED <<norm, resume, mentor, chat, mcq, upload>>

\* lines 141-144: the loop is over; a value that is no list ends it at once,
\* by an exception unless it is an empty dict or str
RunReturn ==
  /\ career.pc = "explain"
  /\ career.suggestions.t = "arr" => career.next > Len(career.suggestions.v)
  /\ career' =
       IF career.suggestions.t = "arr" THEN CareerReturn(career)
       ELSE IF career.suggestions.t = "obj" /\ DOMAIN career.suggestions.v = {}
       THEN CareerReturn(career)
       ELSE IF career.suggestions.t = "str" /\ career.suggestions.v = <<>>
       THEN CareerReturn(career)
       ELSE CareerRaise(career, "TypeError")
  /\ UNCHANGED <<norm, resume, mentor, chat, mcq, upload>>

CareerNext ==
  ParseStudentProfile \/ GenerateCareerSuggestions \/ GenerateExplanation \/ RunReturn

(***************************************************************************)
(* skill_recommendation/app.py: POST /analyze-resume/. The handler is a    *)
(* coroutine; requests in progress take turns at its one await.            *)
(***************************************************************************)
\* f.write(data) through a descriptor opened with "wb": the bytes go to the
\* start of the file, what the file holds beyond them stays
Overwrite(old, data) ==
  IF Len(old) > Len(data) THEN data \o SubSeq(old, Len(data) + 1, Len(old)) ELSE data

\* lines 53-55, up to the await: /tmp/{filename} is created or emptied
SaveUpload(r) ==
  /\ upload.requests[r].pc = "start"
  /\ upload' = [upload EXCEPT !.tmp[upload.requests[r].filename] = <<>>,
                              !.requests[r].pc = "reading"]
  /\ UNCHANGED <<norm, resume, mentor, chat, career, mcq>>

\* a failed extraction returning an empty text
extract_empty_on_failure(stored, extracted) ==
  IF extracted THEN Strip(stored) ELSE <<>>

\* ResumeParser.extract, career_orchestrator.py lines 156-161: the stripped
\* text of the file, or a sentence about the exception textract raised
extract(stored, extracted) ==
  IF extracted THEN Strip(stored) ELSE <<"Error extracting resume:", Space, "e">>

\* lines 55-68, after the await: the upload is written and the file closed,
\* its text is extracted, and orchestrator.run is called with it. The steps
\* of run are the actions of the career orchestrator; here run either raises
\* before any call (no credential), or sends its profile call with the text
\* and raises, or sends its suggestion call with the text as well and
\* returns or raises. Nothing removes the file.
AnalyzeUpload(r) ==
  /\ upload.requests[r].pc = "reading"
  /\ LET req == upload.requests[r]
         stored == Overwrite(upload.tmp[req.filename], req.content)
     IN \E extracted \in BOOLEAN, sent \in 1..2, returned \in BOOLEAN :
          /\ returned => (upload.key /\ sent = 2)
          /\ LET resume_text == extract(stored, extracted)
             IN upload' =
                  [upload EXCEPT
                     !.tmp[req.filename] = stored,
                     !.requests[r] =
                        [req EXCEPT !.pc = "done", !.extracted = extracted,
                                    !.read = stored, !.analysed = resume_text,
                                    !.prompted = IF upload.key
                                                 THEN [i \in 1..sent |-> resume_text]
                                                 ELSE <<>>,
                                    !.result =
                                       IF returned
                                       THEN [resume_text |-> TakeFirst(resume_text, 500),
                                             recommendations |-> "returned"]
                                       ELSE [error |-> "raised"]]]
  /\ UNCHANGED <<norm, resume, mentor, chat, career, mcq>>

UploadNext == \E r \in {"first", "second"} : SaveUpload(r) \/ AnalyzeUpload(r)

(***************************************************************************)
(* question/app.py: MCQGeneratorAgent.generate_mcqs behind POST            *)
(* /generate-quiz                                                          *)
(***************************************************************************)

\* the keys of the quiz format
QuizKeys ==
  [quiz_metadata |-> <<"q", "u", "i", "z", "_", "m", "e", "t", "a", "d", "a", "t",
      "a">>,
   questions |-> <<"q", "u", "e", "s", "t", "i", "o", "n", "s">>,
   id |-> <<"i", "d">>,
   options |-> <<"o", "p", "t", "i", "o", "n", "s">>,
   correct_answer |-> <<"c", "o", "r", "r", "e", "c", "t", "_", "a", "n", "s", "w",
      "e", "r">>]

\* line 140: raw_text[:500]
RawPreviewLimit == 500


\* line 129: "questions" in quiz_data, for the values that have an `in`
HasQuestions(quiz_data) ==
  CASE quiz_data.t = "obj" -> QuizKeys.questions \in DOMAIN quiz_data.v
    [] quiz_data.t = "arr" ->
         \E i \in 1..Len(quiz_data.v) : quiz_data.v[i] = JStr(QuizKeys.questions)
    [] quiz_data.t = "str" -> Contains(quiz_data.v, QuizKeys.questions)

\* lines 129-135: what the validation of a parsed reply ends in
\* whatever was parsed is returned
McqValidateLenient(m, quiz_data) ==
  [m EXCEPT !.pc = "done", !.result = [status |-> 200, quiz |-> quiz_data]]

\* a count other than the requested one is an error
McqValidateStrict(m, quiz_data) ==
  IF quiz_data.t # "obj" \/ ~HasQuestions(quiz_data)
       \/ quiz_data.v[QuizKeys.questions].t # "arr"
       \/ Len(quiz_data.v[QuizKeys.questions].v) # m.num_questions
  THEN [m EXCEPT !.pc = "done", !.result = [status |-> 500, detail |-> "ValueError"]]
  ELSE [m EXCEPT !.pc = "done", !.result = [status |-> 200, quiz |-> quiz_data]]

McqValidate(m, quiz_data) ==
  IF quiz_data.t \in {"num", "bool", "null"}
  THEN [m EXCEPT !.pc = "done", !.result = [status |-> 500, detail |-> "TypeError"]]
  ELSE IF ~HasQuestions(quiz_data)
  THEN [m EXCEPT !.pc = "done",
                 !.result = [status |-> 500, detail |-> "missing questions"]]
  ELSE IF quiz_data.t # "obj" \/ quiz_data.v[QuizKeys.questions].t \in {"num", "bool", "null"}
  THEN [m EXCEPT !.pc = "done", !.result = [status |-> 500, detail |-> "TypeError"]]
  ELSE [m EXCEPT !.pc = "done",
                 !.warned = Len(quiz_data.v[QuizKeys.questions].v) # m.num_questions,
                 !.result = [status |-> 200, quiz |-> quiz_data]]

Letters == <<"A", "B", "C", "D", "E">>

\* one question whose options are the first n letters
QuestionText(i, n, answer) ==
  ObjectText(<<Member(QuizKeys.id, <<Digits[i + 1]>>),
               Member(QuizKeys.options,
                      ObjectText([k \in 1..n |-> Member(<<Letters[k]>>, JsonString(<<"x">>))])),
               Member(QuizKeys.correct_answer, JsonString(<<answer>>))>>)

QuizText(questions) ==
  ObjectText(<<Member(QuizKeys.quiz_metadata, ObjectText(<<>>)),
               Member(QuizKeys.questions, ArrayText(questions))>>)

\* n questions in the format the prompt asks for
GoodQuiz(n) == QuizText([i \in 1..n |-> QuestionText(i, 4, Letters[((i - 1) % 4) + 1])])

\* five questions, the last one with the given options and answer
OddQuiz(n, answer) ==
  QuizText([i \in 1..5 |-> IF i = 5 THEN QuestionText(i, n, answer)
                           ELSE QuestionText(i, 4, Letters[((i - 1) % 4) + 1])])

QuizSizes == {1, 4, 5}

McqTexts ==
  {GoodQuiz(n) : n \in QuizSizes}
    \cup {FencedJson(GoodQuiz(5)), FencedBare(GoodQuiz(5)),
          OddQuiz(3, "A"), OddQuiz(5, "A"), OddQuiz(4, "E"),
          ObjectText(<<Member(QuizKeys.quiz_metadata, ObjectText(<<>>))>>),
          DocList, DocCut, DocWords, <<"1">>, JsonString(QuizKeys.questions),
          GoodQuiz(5) \o GoodQuiz(5), DocWords \o GoodQuiz(5) \o GoodQuiz(4),
          ArrayText(<<JsonString(QuizKeys.questions)>>)}
    \cup {Wrapped(pre, open, gap, GoodQuiz(1), gap, close, post) :
            pre \in Pads(MaxPad), open \in {<<>>, FenceOpen, FenceOpenJson},
            gap \in {<<>>, <<Newline>>}, close \in {<<>>, FenceClose},
            post \in Pads(MaxPad)}

McqOutcomes == {ProviderError, ProviderNull} \cup {ProviderText(t) : t \in McqTexts}

\* line 119: the one completion call; every exception of it is re-raised
\* and becomes the HTTP 500 of lines 142-146
GenerateCall ==
  /\ mcq.pc = "request"
  /\ IF ~mcq.key
     THEN mcq' = [mcq EXCEPT !.pc = "done",
                             !.result = [status |-> 500, detail |-> "Groq API key not configured"]]
     ELSE \E out \in McqOutcomes :
            mcq' = IF out.kind = "error"
                   THEN [mcq EXCEPT !.calls = Append(@, out), !.pc = "done",
                                    !.result = [status |-> 500, detail |-> "Groq API error"]]
                   ELSE [mcq EXCEPT !.calls = Append(@, out), !.pc = "parse",
                                    !.raw_text = IF out.kind = "null" THEN None
                                                 ELSE out.text]
  /\ UNCHANGED <<norm, resume, mentor, chat, career, upload>>

\* lines 121-146: clean, parse, validate
GenerateParse ==
  /\ mcq.pc = "parse"
  /\ mcq' =
       IF mcq.raw_text = None
       THEN [mcq EXCEPT !.pc = "done", !.result = [status |-> 500, detail |-> "TypeError"]]
       ELSE LET loaded == JsonLoads(McqCleanText(mcq.raw_text))
            IN IF ~loaded.ok
               THEN [mcq EXCEPT !.pc = "done",
                                !.result = [status |-> 500, detail |-> "JSONDecodeError",
                                            raw |-> TakeFirst(mcq.raw_text, RawPreviewLimit)]]
               ELSE McqValidate(mcq, loaded.val)
  /\ UNCHANGED <<norm, resume, mentor, chat, career, upload>>

McqNext == GenerateCall \/ GenerateParse

(***************************************************************************)
(* Specifications: one request to one service.                             *)
(***************************************************************************)
InitNorm ==
  /\ \E t \in NormTexts :
       norm = [pc |-> "clean", text |-> t]
  /\ resume = Idle /\ mentor = Idle /\ chat = Idle
  /\ career = Idle /\ mcq = Idle
  /\ upload = Idle

SpecNorm == InitNorm /\ [][NormNext]_vars

InitResume ==
  /\ \E k \in BOOLEAN, ps \in PageLists(MaxPages) :
       resume = [pc |-> "extract", key |-> k, pages |-> ps, extracted |-> FALSE,
                 resume_text |-> <<>>, calls |-> <<>>, succeeded |-> <<>>,
                 parsed_resume |-> JNull, scores |-> JNull,
                 recommendations |-> JNull, result |-> [pending |-> TRUE]]
  /\ norm = Idle /\ mentor = Idle /\ chat = Idle
  /\ career = Idle /\ mcq = Idle
  /\ upload = Idle

SpecResume == InitResume /\ [][ResumeNext]_vars

InitMentor ==
  /\ \E k \in BOOLEAN, msg \in MentorMessages :
       mentor = [pc |-> "chat", key |-> k, message |-> msg, calls |-> <<>>,
                 first_content |-> ProviderNull, tool_calls |-> <<>>, next_tool |-> 1,
                 tool_results |-> <<>>, response |-> <<>>, status |-> "none", http |-> 0,
                 tool_failure |-> "none", lookup_miss |-> FALSE, direct |-> FALSE,
                 rejected |-> FALSE]
  /\ norm = Idle /\ resume = Idle /\ chat = Idle
  /\ career = Idle /\ mcq = Idle
  /\ upload = Idle

SpecMentor == InitMentor /\ [][MentorNext]_vars

InitChat ==
  /\ \E k \in BOOLEAN, it \in {"option", "text", "voice"},
        oid \in {None, <<>>} \cup OptionIds,
        msg \in {None, <<>>} \cup ChatMessages(MaxWords),
        page \in {None, <<"/", "a", "t", "s">>} :
       chat = [pc |-> "request", key |-> k, input_type |-> it, option_id |-> oid,
               message |-> msg, current_page |-> page, calls |-> <<>>,
               reply |-> [pending |-> TRUE]]
  /\ norm = Idle /\ resume = Idle /\ mentor = Idle
  /\ career = Idle /\ mcq = Idle
  /\ upload = Idle

SpecChat == InitChat /\ [][ChatNext]_vars

\* a conversation that starts at the main menu
InitMenu ==
  /\ chat = [pc |-> "browsing", shown |-> get_main_menu, selected |-> <<>>]
  /\ norm = Idle /\ resume = Idle /\ mentor = Idle
  /\ career = Idle /\ mcq = Idle
  /\ upload = Idle

SpecMenu == InitMenu /\ [][SelectOffered]_vars

InitCareer ==
  /\ \E k \in BOOLEAN :
       career = [pc |-> "profile", key |-> k, calls |-> <<>>, parsed_profile |-> JNull,
                 suggestions |-> JNull, next |-> 1, result |-> [pending |-> TRUE]]
  /\ norm = Idle /\ resume = Idle /\ mentor = Idle
  /\ chat = Idle /\ mcq = Idle
  /\ upload = Idle

SpecCareer == InitCareer /\ [][CareerNext]_vars

InitMcq ==
  /\ \E k \in BOOLEAN, n \in QuizSizes :
       mcq = [pc |-> "request", key |-> k, num_questions |-> n, calls |-> <<>>,
              raw_text |-> None, warned |-> FALSE, result |-> [pending |-> TRUE]]
  /\ norm = Idle /\ resume = Idle /\ mentor = Idle
  /\ chat = Idle /\ career = Idle
  /\ upload = Idle

SpecMcq == InitMcq /\ [][McqNext]_vars

\* two uploads, with the same filename or not, of the same length or not
InitUpload ==
  /\ \E key \in BOOLEAN,
        names \in [{"first", "second"} -> {"cv.pdf", "resume.pdf"}],
        contents \in [{"first", "second"} -> {<<"a", "d", "a">>, <<"b", "o">>, <<Space, "c">>}] :
       upload = [key |-> key,
                 tmp |-> [f \in {"cv.pdf", "resume.pdf"} |-> None],
                 requests |-> [r \in {"first", "second"} |->
                                 [pc |-> "start", filename |-> names[r],
                                  content |-> contents[r], extracted |-> FALSE,
                                  read |-> None, analysed |-> None, prompted |-> <<>>,
                                  result |-> [pending |-> TRUE]]]]
  /\ norm = Idle /\ resume = Idle /\ mentor = Idle
  /\ chat = Idle /\ career = Idle /\ mcq = Idle

SpecUpload == InitUpload /\ [][UploadNext]_vars

(***************************************************************************)
(* Properties of the resume pipeline and of its normalizer.                *)
(***************************************************************************)
BlankPages(pages) ==
  \A i \in 1..Len(pages) : \A k \in 1..Len(pages[i]) : pages[i][k] \in PyWhitespace

ResumeStages == <<"parse", "score", "recommend">>

IsPrefix(p, q) == Len(p) <= Len(q) /\ SubSeq(q, 1, Len(p)) = p

\* C5: when the text extracted from the resume is empty or only whitespace,
\* analyze_resume_pdf returns {success: false} with the error that no text
\* could be extracted, and has sent no completion call.
C5_EmptyTextIsRejected ==
  (resume.pc = "done" /\ resume.extracted /\ BlankPages(resume.pages))
    => /\ resume.result = [success |-> FALSE,
                           error |-> "No text could be extracted from the PDF"]
       /\ resume.calls = <<>>

\* a finished analysis of a PDF whose only page holds a blank
C5_Witness ==
  /\ resume.pc = "done" /\ resume.extracted /\ resume.key
  /\ resume.pages = <<<<Space>>>>
  /\ resume.result.success = FALSE

\* C6: the completion calls go out in the order parse, score, recommend,
\* each only after the stage before it succeeded; the first failing stage
\* ends the calls, and the result of a failed analysis is exactly
\* {success: false, error}; a successful one has sent all three calls.
C6_StagesInOrderAndNoPartialResult ==
  resume.pc # "idle" =>
    /\ IsPrefix(resume.calls, ResumeStages)
    /\ IsPrefix(resume.succeeded, resume.calls)
    /\ Len(resume.calls) <= Len(resume.succeeded) + 1
    /\ (resume.pc \in {"parse", "score", "recommend"}
          => resume.calls = resume.succeeded)
    /\ (resume.pc = "done" =>
          IF resume.result.success
          THEN resume.calls = ResumeStages /\ resume.succeeded = ResumeStages
          ELSE /\ DOMAIN resume.result = {"success", "error"}
               /\ resume.succeeded # ResumeStages)

\* an analysis that failed in its score stage, after a parse that succeeded
C6_Witness ==
  /\ resume.pc = "done"
  /\ resume.calls = <<"parse", "score">>
  /\ resume.succeeded = <<"parse">>
  /\ resume.result = [success |-> FALSE, error |-> "Failed to parse JSON response"]

LacksFence(text) == ~Contains(text, FenceOpen)

\* {"a":1} bare, or inside a json fence, with optional whitespace around
A1Forms ==
  {Wrapped(pre, fence[1], gap1, DocA1, gap2, fence[2], post) :
     pre \in Pads(MaxPad), gap1 \in {<<>>, <<Newline>>}, gap2 \in {<<>>, <<Newline>>},
     post \in Pads(MaxPad), fence \in {<<<<>>, <<>>>>, <<FenceOpenJson, FenceClose>>}}

\* C10: on a text without fence markers the stripping step of
\* clean_json_response changes nothing when applied a second time, and
\* {"a":1} parses to the object with a = 1 whether it is bare or wrapped in
\* a json fence, with or without whitespace around it.
C10_StripIdempotentAndRoundTrip ==
  norm.pc = "done" =>
    /\ (LacksFence(norm.text) => norm.again = norm.stripped)
    /\ (norm.text \in A1Forms
          => /\ norm.parsed.ok
             /\ norm.parsed.val = JObj((<<"a">> :> JNum(1))))

\* {"a":1} in a json fence with whitespace on both sides, parsed
C10_Witness ==
  /\ norm.pc = "done"
  /\ norm.text = <<Space>> \o FencedJson(DocA1) \o <<Newline>>
  /\ norm.parsed.ok
  /\ norm.stripped = DocA1

\* C11: the fence stripping of the MCQ generator and clean_json_response of
\* the resume pipeline agree on every raw text, fenced or not, padded with
\* whitespace or not: both parse it to the same JSON value, or both fail.
C11_NormalizersAgree ==
  norm.pc = "compared" =>
    /\ norm.parsed.ok = norm.mcq_parsed.ok
    /\ (norm.parsed.ok => norm.parsed.val = norm.mcq_parsed.val)

(***************************************************************************)
(* Properties of the mentor /chat endpoint.                                *)
(***************************************************************************)
FallbackCalls(m) == SelectSeq(m.calls, LAMBDA c : c.purpose = "fallback")

ClaimedToolFailures == {"first_call", "bad_arguments", "tool_exception", "follow_up"}

\* C1: with the credential configured, a request whose message is empty is
\* answered with HTTP 400 and no completion call is sent for it.
C1_EmptyMessageRejected ==
  (mentor.pc = "done" /\ mentor.key /\ mentor.message = <<>>)
    => (mentor.http = 400 /\ mentor.calls = <<>>)

\* C3, as claimed: after a failure in the tool path the response text is the
\* content the fallback completion returned, with status "success" and no
\* exception surfaced.
C3_ResponseIsFallbackContent ==
  (mentor.pc = "done" /\ mentor.tool_failure \in ClaimedToolFailures)
    => /\ mentor.http = 200 /\ mentor.status = "success"
       /\ FallbackCalls(mentor) # <<>>
       /\ LET f == FallbackCalls(mentor)[1]
          IN f.outcome.kind = "text" /\ mentor.response = f.outcome.text

\* C3, amended: after a failure in the tool path (a tool throws, arguments
\* that are not JSON, the first or the follow-up call fails) the exception
\* is not surfaced and the answer comes from the fallback completion, a
\* plain call with system prompt and without tools: the content of that
\* call with status "success" when it returns a text, the apology of the
\* fallback with status "success" when that call fails; a fallback call
\* whose content is null is sent a second time, and only a second null
\* content ends in status "error".
C3_FallbackDecidesResponse ==
  (mentor.pc = "done" /\ mentor.tool_failure \in ClaimedToolFailures)
    => /\ mentor.http = 200
       /\ FallbackCalls(mentor) # <<>>
       /\ \A i \in 1..Len(FallbackCalls(mentor)) :
            FallbackCalls(mentor)[i].system_prompt /\ ~FallbackCalls(mentor)[i].tools
       /\ mentor.calls[Len(mentor.calls)].purpose = "fallback"
       /\ LET f == mentor.calls[Len(mentor.calls)].outcome
          IN /\ f.kind = "text"
                  => (mentor.response = f.text /\ mentor.status = "success")
             /\ f.kind = "error"
                  => (mentor.response = FallbackApology /\ mentor.status = "success")
             /\ f.kind = "null"
                  => /\ Len(FallbackCalls(mentor)) = 2
                     /\ FallbackCalls(mentor)[1].outcome.kind = "null"
                     /\ mentor.response = TechnicalDifficulties
                     /\ mentor.status = "error"
       /\ (FallbackCalls(mentor)[1].outcome.kind # "null"
             => Len(FallbackCalls(mentor)) = 1)

\* a tool threw after a first call that answered A, and the fallback call
\* answered B
C3_Witness ==
  /\ mentor.pc = "done" /\ mentor.tool_failure = "tool_exception"
  /\ mentor.first_content = ProviderText(AnswerA)
  /\ Len(mentor.calls) = 2
  /\ mentor.calls[2].purpose = "fallback"
  /\ mentor.calls[2].outcome = ProviderText(AnswerB)
  /\ mentor.response = AnswerB /\ mentor.status = "success"

\* C4: a request in which the model asked for a tool that is not registered
\* falls back to the plain completion call: it neither returns the content
\* of the first call nor sends the follow-up call without the unknown tool.
C4_LookupMissFallsBack ==
  (mentor.pc = "done" /\ mentor.lookup_miss)
    => /\ FallbackCalls(mentor) # <<>>
       /\ ~mentor.direct
       /\ \A i \in 1..Len(mentor.calls) : mentor.calls[i].purpose # "follow_up"

\* the request went the way of the tools: its first call advertises them
TookToolPath ==
  \/ mentor.pc = "first_call"
  \/ mentor.calls # <<>> /\ mentor.calls[1].purpose = "tools"

C17_AtMostThreeCallsNoRepeat ==
  /\ Len(mentor.calls) <= 3
  /\ Len(FallbackCalls(mentor)) <= 1
  /\ \A i, j \in 1..Len(mentor.calls) :
       (i # j) => mentor.calls[i].purpose # mentor.calls[j].purpose
  /\ (mentor.pc = "done" /\ mentor.key /\ mentor.message # <<>> /\ ~TookToolPath)
       => Len(mentor.calls) = 1

\* C24: with the credential configured, every finished request is answered
\* with status "success", whatever the message, the outcomes of the
\* completion calls and the outcomes of the tools.
C24_StatusAlwaysSuccess ==
  (mentor.pc = "done" /\ mentor.key) => mentor.status = "success"

(***************************************************************************)
(* Properties of the chatbot.                                              *)
(***************************************************************************)
KnownOptionIds ==
  {Ids.main_menu, Ids.navigate_pages, Ids.explore_features, Ids.career_help,
   Ids.quick_actions} \cup {navigate_options[i].id : i \in 1..Len(navigate_options)}

OffersMainMenu(response) ==
  /\ "follow_up_options" \in DOMAIN response
  /\ \E i \in 1..Len(response.follow_up_options) :
       response.follow_up_options[i].id = Ids.main_menu

\* C2: an option turn whose option_id is none of the known ids, an unknown
\* id that starts with "go_" included, is answered by a response of type
\* "error" whose follow_up_options hold the option main_menu.
C2_UnknownOptionIsErrorWithMenu ==
  (/\ chat.pc = "done" /\ chat.input_type = "option"
   /\ Truthy(chat.option_id) /\ chat.option_id \notin KnownOptionIds)
    => /\ chat.reply.response.type = "error"
       /\ OffersMainMenu(chat.reply.response)

\* the completion call of the text pipeline has been made
TextTurn == chat.pc = "done" /\ chat.calls # <<>>

\* the rows of the keyword table whose keyword the text holds, letter case
\* set aside
KeywordRows(text) ==
  LET lowered == Lower(text)
  IN {r \in 1..Len(keyword_to_page) : Contains(lowered, keyword_to_page[r].keyword)}

FirstRow(text) == CHOOSE r \in KeywordRows(text) : \A q \in KeywordRows(text) : r <= q

NavigationActions(response) ==
  IF "actions" \in DOMAIN response
  THEN SelectSeq(response.actions, LAMBDA a : a.type = "navigate")
  ELSE <<>>

\* exactly one navigation action, to the page of the first matching row of
\* the table, when the text holds a keyword; none when it holds none
ActionFollowsKeywordTable(text, response) ==
  IF KeywordRows(text) # {}
  THEN /\ Len(NavigationActions(response)) = 1
       /\ NavigationActions(response)[1].page = keyword_to_page[FirstRow(text)].page
  ELSE NavigationActions(response) = <<>>

\* C8, as claimed: the result of the text pipeline for a message that holds
\* a keyword carries exactly one navigation action, to the page of the first
\* keyword in table order that the message holds; for a message without
\* keyword it carries none.
C8_KeywordGivesOneAction ==
  TextTurn => ActionFollowsKeywordTable(chat.message, chat.reply.response)

\* C8, amended: whenever the completion helper returns, with the content of
\* the model or with one of its two apologies, the result is of type "text"
\* and carries exactly one navigation action, to the page of the first
\* keyword in table order that the message holds case-insensitively as a
\* substring, and no navigation action when the message holds no keyword;
\* when the helper raises an exception it does not catch itself, the result
\* is of type "error" and carries no navigation action, whatever the message
\* holds.
C8_ActionUnlessPipelineFails ==
  TextTurn =>
    IF chat.calls[1].kind = "malformed"
    THEN /\ chat.reply.response.type = "error"
         /\ NavigationActions(chat.reply.response) = <<>>
    ELSE /\ chat.reply.response.type = "text"
         /\ ActionFollowsKeywordTable(chat.message, chat.reply.response)

\* "JOB Skills": job comes first in the message, skill first in the table
C8_Witness ==
  /\ TextTurn
  /\ chat.message = Words.JOB \o <<Space>> \o Words.Skills
  /\ chat.calls[1].kind = "text"
  /\ Len(chat.reply.response.actions) = 1
  /\ chat.reply.response.actions[1].page = "/skills-analysis"

\* C23: in a conversation that starts at the main menu and in which the
\* user only selects options that the last response offered, no response
\* is of type "error".
C23_OptionGraphClosed == chat.shown.type # "error"

\* C21: a finished turn was dispatched by its input_type. An option turn
\* with an option_id has the answer of the menu router for that id and no
\* completion call, whatever its message; a text turn with a non-empty
\* message has the answer of the text pipeline for that message and exactly
\* one completion call, whatever its option_id; every other turn has the
\* main menu and no completion call.
C21_DispatchByInputType ==
  chat.pc = "done"
    => IF chat.input_type = "option" /\ chat.option_id \notin {None, <<>>}
       THEN /\ chat.calls = <<>>
            /\ chat.reply.response =
                 IF chat.option_id = Ids.main_menu THEN get_main_menu
                 ELSE handle_option_selection(chat.option_id)
       ELSE IF chat.input_type = "text" /\ chat.message \notin {None, <<>>}
       THEN /\ Len(chat.calls) = 1
            /\ chat.reply.response = process_text_with_groq(chat.message, chat.calls[1])
       ELSE /\ chat.calls = <<>>
            /\ chat.reply.response = get_main_menu

\* an option turn that carries a message as well, answered by the router
C21_Witness ==
  /\ chat.pc = "done"
  /\ chat.key
  /\ chat.input_type = "option"
  /\ chat.option_id = Ids.career_help
  /\ chat.message = Words.resume
  /\ chat.calls = <<>>
  /\ chat.reply.response = handle_option_selection(Ids.career_help)
  /\ chat.reply.response # get_main_menu

(***************************************************************************)
(* Properties of the career orchestrator.                                  *)
(***************************************************************************)
CareerCalls(purpose) == SelectSeq(career.calls, LAMBDA c : c.purpose = purpose)

\* the suggestion call returned a text that is no JSON once its fences are cut
SuggestionReplyMalformed ==
  /\ CareerCalls("suggestions") # <<>>
  /\ CareerCalls("suggestions")[1].outcome.kind = "text"
  /\ ~JsonLoads(CareerStripped(CareerCalls("suggestions")[1].outcome.text)).ok

ProfileReplyMalformed ==
  /\ career.calls # <<>>
  /\ \/ career.calls[1].outcome.kind = "null"
     \/ /\ career.calls[1].outcome.kind = "text"
        /\ ~JsonLoads(CareerStripped(career.calls[1].outcome.text)).ok

\* C22: when the profile call returned a text that is not valid JSON, the
\* parsed profile is {skills: [], academics: null, interests: []} and the
\* run goes on: the suggestion call is sent, and the run ends without
\* recommendations only when a later call failed or the suggestion reply
\* was JSON that holds no suggestion objects. A run that ended after its
\* profile call alone had a provider error in that call.
C22_MalformedProfileGivesDefaults ==
  /\ ProfileReplyMalformed
       => /\ career.parsed_profile =
               JObj((Keys.skills :> JArr(<<>>)) @@ (Keys.academics :> JNull)
                      @@ (Keys.interests :> JArr(<<>>)))
          /\ career.pc # "profile"
          /\ (career.pc = "done" /\ "error" \in DOMAIN career.result)
               => /\ Len(career.calls) >= 2
                  /\ \/ career.calls[Len(career.calls)].outcome.kind = "error"
                     \/ /\ career.suggestions.t = "arr"
                           => /\ career.next <= Len(career.suggestions.v)
                              /\ career.suggestions.v[career.next].t # "obj"
  /\ (career.pc = "done" /\ Len(career.calls) = 1)
       => career.calls[1].outcome.kind = "error"

\* the profile call answered with words, and two suggestions were explained
C22_Witness ==
  /\ career.pc = "done"
  /\ Len(career.calls) = 4
  /\ career.calls[1].outcome = ProviderText(DocWords)
  /\ career.calls[2].outcome = ProviderText(SuggestionsText(2))
  /\ "recommendations" \in DOMAIN career.result
  /\ Len(career.result.recommendations.v) = 2

\* C20: a valid JSON array of suggestions inside a fence, with the json tag
\* or without it, is taken as the suggestions of the model, as the resume
\* normalizer would read it, and the fallback suggestion is not used.
C20_FencedSuggestionsAccepted ==
  (career.pc = "explain" /\ career.next = 1
     /\ career.calls[2].outcome.kind = "text"
     /\ StartsWith(career.calls[2].outcome.text, FenceOpen))
    => LET shared == clean_json_response(career.calls[2].outcome.text)
       IN (shared.ok /\ shared.val.t = "arr")
            => /\ career.suggestions = shared.val
               /\ career.suggestions # FallbackSuggestions

\* C15: the calls of a run are sent in the order profile, suggestions,
\* explanations. A run whose calls all succeeded and that returned has sent
\* exactly 2 + N calls, N being the number of suggestions it returns (1 when
\* the fallback suggestion is used), and its i-th suggestion carries as its
\* explanation the reply of the i-th explanation call.
C15_TwoPlusNCallsInOrder ==
  /\ \A i \in 1..Len(career.calls) :
       career.calls[i].purpose =
         IF i = 1 THEN "profile" ELSE IF i = 2 THEN "suggestions" ELSE "explanation"
  /\ (/\ career.pc = "done"
      /\ "recommendations" \in DOMAIN career.result
      /\ career.result.recommendations.t = "arr")
       => LET r == career.result.recommendations.v
          IN /\ Len(career.calls) = 2 + Len(r)
             /\ \A i \in 1..Len(career.calls) : career.calls[i].outcome.kind # "error"
             /\ SuggestionReplyMalformed => Len(r) = 1
             /\ \A i \in 1..Len(r) :
                  /\ r[i].t = "obj"
                  /\ Keys.explanation \in DOMAIN r[i].v
                  /\ r[i].v[Keys.explanation] =
                       IF career.calls[2 + i].outcome.kind = "null" THEN JNull
                       ELSE JStr(career.calls[2 + i].outcome.text)

\* two suggestions of the model, explained by two different replies
C15_Witness ==
  /\ career.pc = "done"
  /\ "recommendations" \in DOMAIN career.result
  /\ Len(career.calls) = 4
  /\ career.calls[2].outcome = ProviderText(SuggestionsText(2))
  /\ Len(career.result.recommendations.v) = 2
  /\ career.result.recommendations.v[1].v[Keys.explanation] = JStr(AnswerA)
  /\ career.result.recommendations.v[2].v[Keys.explanation] = JStr(AnswerB)

(***************************************************************************)
(* Properties of the MCQ generator.                                        *)
(***************************************************************************)
AnswerLetters == {"A", "B", "C", "D"}

\* a quiz of n questions, each with exactly the options A to D and a
\* correct_answer among them
WellFormedQuiz(quiz, n) ==
  /\ quiz.t = "obj"
  /\ QuizKeys.questions \in DOMAIN quiz.v
  /\ quiz.v[QuizKeys.questions].t = "arr"
  /\ Len(quiz.v[QuizKeys.questions].v) = n
  /\ \A i \in 1..Len(quiz.v[QuizKeys.questions].v) :
       LET q == quiz.v[QuizKeys.questions].v[i]
       IN /\ q.t = "obj"
          /\ {QuizKeys.options, QuizKeys.correct_answer} \subseteq DOMAIN q.v
          /\ q.v[QuizKeys.options].t = "obj"
          /\ DOMAIN q.v[QuizKeys.options].v = {<<l>> : l \in AnswerLetters}
          /\ q.v[QuizKeys.correct_answer].t = "str"
          /\ q.v[QuizKeys.correct_answer].v \in {<<l>> : l \in AnswerLetters}

\* C9: a generation asked for 5 questions whose reply is well formed (the
\* JSON the prompt asks for and nothing else, with 5 questions) returns a
\* quiz with exactly 5 entries in questions, each with exactly the options
\* A, B, C and D and a correct_answer among A, B, C, D.
C9_WellFormedReplyGivesFiveQuestions ==
  (/\ mcq.pc = "done" /\ mcq.num_questions = 5 /\ mcq.raw_text # None
   /\ JsonLoads(mcq.raw_text).ok
   /\ WellFormedQuiz(JsonLoads(mcq.raw_text).val, 5))
    => /\ mcq.result.status = 200
       /\ WellFormedQuiz(mcq.result.quiz, 5)
       /\ ~mcq.warned

C9_Witness ==
  /\ mcq.pc = "done" /\ mcq.num_questions = 5
  /\ mcq.raw_text = GoodQuiz(5)
  /\ mcq.result.status = 200
  /\ Len(mcq.result.quiz.v[QuizKeys.questions].v) = 5

(***************************************************************************)
(* The credential.                                                         *)
(***************************************************************************)
\* C12: in every service a request that needs a completion while the
\* credential is absent is answered with an error that names the
\* configuration problem, and no completion call is sent for it: the resume
\* pipeline, the mentor /chat endpoint, the MCQ generator, the career
\* orchestrator and the text pipeline of the chatbot.
C12_MissingKeyIsConfigurationError ==
  /\ (resume.pc = "done" /\ ~resume.key /\ resume.extracted
        /\ ~NoTextExtracted(resume.resume_text))
       => /\ resume.calls = <<>>
          /\ resume.result = [success |-> FALSE, error |-> "Groq API key not configured"]
  /\ (mentor.pc = "done" /\ ~mentor.key)
       => /\ mentor.calls = <<>>
          /\ mentor.http = 500
          /\ mentor.response = <<"Groq API key not configured">>
  /\ (mcq.pc = "done" /\ ~mcq.key)
       => /\ mcq.calls = <<>>
          /\ mcq.result = [status |-> 500, detail |-> "Groq API key not configured"]
  /\ (career.pc = "done" /\ ~career.key)
       => /\ career.calls = <<>>
          /\ career.result = [error |-> "Groq API key not configured"]
  /\ (chat.pc = "done" /\ ~chat.key /\ chat.input_type = "text" /\ Truthy(chat.message))
       => /\ chat.calls = <<>>
          /\ chat.reply.response.type = "error"

(***************************************************************************)
(* Properties of POST /analyze-resume/.                                    *)
(***************************************************************************)
\* C13: once a request has completed, with a result or with an error, the
\* temporary file written for its upload has been removed; stated for the
\* moments at which no request is in progress.
C13_TempFileRemoved ==
  (\A r \in DOMAIN upload.requests : upload.requests[r].pc = "done")
    => \A f \in DOMAIN upload.tmp : upload.tmp[f] = None

\* C14: under every interleaving of two requests, with the same filename or
\* not, each request is analysed on exactly the text of its own upload: what
\* it reads back from its temporary file is what it was sent.
C14_EachReadsItsOwnUpload ==
  \A r \in DOMAIN upload.requests :
    upload.requests[r].pc = "done"
      => /\ upload.requests[r].read = upload.requests[r].content
         /\ (upload.requests[r].extracted
               => upload.requests[r].analysed = Strip(upload.requests[r].content))

\* C25: with the credential configured, a request whose text extraction
\* failed is not ended by that failure: the text handed to the orchestrator
\* starts with "Error extracting resume:", at least one completion call was
\* sent and every call sent carries that text, and when the run returns,
\* the response shows that text as resume_text next to the recommendations.
C25_ExtractionFailureIsAnalysed ==
  \A r \in DOMAIN upload.requests :
    (upload.key /\ upload.requests[r].pc = "done" /\ ~upload.requests[r].extracted)
      => /\ StartsWith(upload.requests[r].analysed, <<"Error extracting resume:">>)
         /\ upload.requests[r].prompted # <<>>
         /\ \A i \in 1..Len(upload.requests[r].prompted) :
              upload.requests[r].prompted[i] = upload.requests[r].analysed
         /\ "recommendations" \in DOMAIN upload.requests[r].result
              => upload.requests[r].result.resume_text = upload.requests[r].analysed

\* an upload that could not be read and was answered with recommendations
C25_Witness ==
  /\ upload.key
  /\ upload.requests["first"].pc = "done"
  /\ ~upload.requests["first"].extracted
  /\ Len(upload.requests["first"].prompted) = 2
  /\ "recommendations" \in DOMAIN upload.requests["first"].result
  /\ StartsWith(upload.requests["first"].result.resume_text,
                <<"Error extracting resume:">>)

(***************************************************************************)
(* Properties of the MCQ generator: the replies that are refused or        *)
(* passed on.                                                              *)
(***************************************************************************)
\* C18: when the text of the model is no JSON once its fences are cut, the
\* request ends with HTTP 500 whose detail carries the first 500 characters
\* of the raw text and no more; when it is JSON without a "questions"
\* field, the request ends with HTTP 500; in neither case is a quiz returned.
C18_UnusableReplyIsError ==
  (mcq.pc = "done" /\ mcq.calls # <<>> /\ mcq.calls[1].kind = "text")
    => LET loaded == JsonLoads(McqCleanText(mcq.calls[1].text))
       IN /\ ~loaded.ok
               => /\ mcq.result.status = 500
                  /\ "quiz" \notin DOMAIN mcq.result
                  /\ mcq.result.detail = "JSONDecodeError"
                  /\ IsPrefix(mcq.result.raw, mcq.calls[1].text)
                  /\ Len(mcq.result.raw) <= 500
                  /\ Len(mcq.calls[1].text) >= 500 => Len(mcq.result.raw) = 500
          /\ (loaded.ok /\ ~(loaded.val.t = "obj"
                             /\ QuizKeys.questions \in DOMAIN loaded.val.v))
               => /\ mcq.result.status = 500
                  /\ "quiz" \notin DOMAIN mcq.result

\* two quizzes one after the other are no JSON and longer than the excerpt
C18_Witness ==
  /\ mcq.pc = "done"
  /\ mcq.calls # <<>>
  /\ mcq.calls[1] = ProviderText(GoodQuiz(5) \o GoodQuiz(5))
  /\ mcq.result.status = 500
  /\ Len(mcq.result.raw) = 500
  /\ Len(mcq.calls[1].text) > 500

\* C19: when the parsed reply holds a "questions" list whose length is not
\* the requested number, the request returns the parsed data as it is, with
\* status 200; the difference is only logged.
C19_CountMismatchReturnsData ==
  (mcq.pc = "done" /\ mcq.calls # <<>> /\ mcq.calls[1].kind = "text")
    => LET loaded == JsonLoads(McqCleanText(mcq.calls[1].text))
       IN (/\ loaded.ok
           /\ loaded.val.t = "obj"
           /\ QuizKeys.questions \in DOMAIN loaded.val.v
           /\ loaded.val.v[QuizKeys.questions].t = "arr"
           /\ Len(loaded.val.v[QuizKeys.questions].v) # mcq.num_questions)
            => /\ mcq.result = [status |-> 200, quiz |-> loaded.val]
               /\ mcq.warned

\* five questions asked for, four returned
C19_Witness ==
  /\ mcq.pc = "done"
  /\ mcq.num_questions = 5
  /\ mcq.calls # <<>>
  /\ mcq.calls[1] = ProviderText(GoodQuiz(4))
  /\ mcq.result.status = 200
  /\ Len(mcq.result.quiz.v[QuizKeys.questions].v) = 4
  /\ mcq.warned

=============================================================================
